---- MODULE Spec2Model ----
(***************************************************************************)
(* A model of main() of src/main.rs: the two `match` expressions of        *)
(* section 3 (pattern matching) and the loops of section 4 (control flow). *)
(* A `match` is evaluated arm by arm, in source order; inside a struct     *)
(* pattern the fields are tested in source order; a binding pattern adds   *)
(* to the environment of the arm under test, and the environment of an arm *)
(* that is rejected (by a sub-pattern or by its guard) is dropped.         *)
(* The scrutinees `foo` and `bar` range over the values of their types, so *)
(* that every arm of the program is exercised; the values the program      *)
(* itself uses (AnI32(1), FooBar {15, AnI32(32)}) are among them.          *)
(***************************************************************************)
EXTENDS Integers, Sequences, FiniteSets, TLC

VARIABLES pc, foo, bar, arm, env, idx, i, flag, out

vars == <<pc, foo, bar, arm, env, idx, i, flag, out>>

\* ---------------------------------------------------------------- bounds
MaxInt == 2

\* the i32 values the scrutinees are drawn from (with the program's own)
I32Vals == (-MaxInt .. MaxInt) \cup {1, 15, 32}

\* ----------------------------------------------------------------- types
\* enum OptionalI32 { AnI32(i32), Nothing }
AnI32(k) == [tag |-> "AnI32", val |-> k]

Nothing == [tag |-> "Nothing"]

OptionalI32 == {AnI32(k) : k \in I32Vals} \cup {Nothing}

\* struct FooBar { x: i32, y: OptionalI32 }
FooBar == [x : I32Vals, y : OptionalI32]

\* the binding environment of an arm: a function from names to values
EmptyEnv == [nm \in {} |-> 0]

\* ------------------------------------------------------------ match foo
NumFooArms == 2

\* the pattern of arm k of `match foo`, as a test of the scrutinee
FooPat(k, v) ==
  CASE k = 0 -> v.tag = "AnI32"        \* OptionalI32::AnI32(n)
    [] k = 1 -> v.tag = "Nothing"      \* OptionalI32::Nothing

\* FooBind with the payload of AnI32 not bound
FooBindDropsPayload(k, v) == EmptyEnv

\* the bindings the pattern of arm k introduces when it matches v
FooBind(k, v) ==
  CASE k = 0 -> ("n" :> v.val)
    [] k = 1 -> EmptyEnv

\* the body of arm k of `match foo`: what it prints
FooAction(k, e) ==
  CASE k = 0 -> <<"i32", <<e["n"]>>>>
    [] k = 1 -> <<"nothing", <<>>>>

\* ------------------------------------------------------------ match bar
NumBarArms == 4

\* the sub-pattern of field x in arm k of `match bar`
BarXPat(k, vx) ==
  CASE k = 0 -> vx = 0                 \* x: 0
    [] k = 1 -> TRUE                   \* x: n
    [] k = 2 -> TRUE                   \* x: n
    [] k = 3 -> TRUE                   \* x: _

BarXBind(k, vx) ==
  CASE k = 0 -> EmptyEnv
    [] k = 1 -> ("n" :> vx)
    [] k = 2 -> ("n" :> vx)
    [] k = 3 -> EmptyEnv

\* BarYPat with the last arm testing for AnI32 instead of Nothing
BarYPatNoNothingArm(k, vy) ==
  CASE k = 0 -> vy.tag = "AnI32" /\ vy.val = 0
    [] k = 1 -> vy.tag = "AnI32"
    [] k = 2 -> vy.tag = "AnI32"
    [] k = 3 -> vy.tag = "AnI32"

\* the sub-pattern of field y in arm k of `match bar`
BarYPat(k, vy) ==
  CASE k = 0 -> vy.tag = "AnI32" /\ vy.val = 0   \* y: OptionalI32::AnI32(0)
    [] k = 1 -> vy.tag = "AnI32"                 \* y: OptionalI32::AnI32(m)
    [] k = 2 -> vy.tag = "AnI32"                 \* y: OptionalI32::AnI32(m)
    [] k = 3 -> vy.tag = "Nothing"               \* y: OptionalI32::Nothing

BarYBind(k, vy) ==
  CASE k = 0 -> EmptyEnv
    [] k = 1 -> ("m" :> vy.val)
    [] k = 2 -> ("m" :> vy.val)
    [] k = 3 -> EmptyEnv

\* the guard of arm k, over the environment of that arm
BarGuard(k, e) ==
  CASE k = 1 -> e["n"] = e["m"]        \* if n == m
    [] OTHER -> TRUE

\* the body of arm k of `match bar`: what it prints
BarAction(k, e) ==
  CASE k = 0 -> <<"zero", <<>>>>
    [] k = 1 -> <<"same", <<>>>>
    [] k = 2 -> <<"different", <<e["n"], e["m"]>>>>
    [] k = 3 -> <<"second_nothing", <<>>>>

\* ---------------------------------------------------------- control flow
array == <<1, 2, 3>>

RangeStart == 0

RangeEnd == 10

\* ------------------------------------------------------------------ Init
Init ==
  /\ pc = "foo_match"
  /\ foo \in OptionalI32
  /\ bar \in FooBar
  /\ arm = 0
  /\ env = EmptyEnv
  /\ idx = 0
  /\ i = RangeStart
  /\ flag = TRUE
  /\ out = <<>>

\* --------------------------------------------------------------- actions
\* match foo: test the pattern of the arm under test
FooTry ==
  /\ pc = "foo_match"
  /\ arm < NumFooArms
  /\ IF FooPat(arm, foo)
       THEN /\ env' = FooBind(arm, foo)
            /\ pc' = "foo_body"
            /\ arm' = arm
       ELSE /\ env' = EmptyEnv
            /\ pc' = "foo_match"
            /\ arm' = arm + 1
  /\ UNCHANGED <<foo, bar, idx, i, flag, out>>

\* match foo: run the body of the selected arm, then start `match bar`
FooBody ==
  /\ pc = "foo_body"
  /\ out' = Append(out, FooAction(arm, env))
  /\ pc' = "bar_x"
  /\ arm' = 0
  /\ env' = EmptyEnv
  /\ UNCHANGED <<foo, bar, idx, i, flag>>

\* match bar: test field x of the arm under test
BarFieldX ==
  /\ pc = "bar_x"
  /\ arm < NumBarArms
  /\ IF BarXPat(arm, bar.x)
       THEN /\ env' = env @@ BarXBind(arm, bar.x)
            /\ pc' = "bar_y"
            /\ arm' = arm
       ELSE /\ env' = EmptyEnv
            /\ pc' = "bar_x"
            /\ arm' = arm + 1
  /\ UNCHANGED <<foo, bar, idx, i, flag, out>>

\* BarFieldY keeping the bindings of field x when field y fails
BarFieldYKeepsEnv ==
  /\ pc = "bar_y"
  /\ IF BarYPat(arm, bar.y)
       THEN /\ env' = env @@ BarYBind(arm, bar.y)
            /\ pc' = "bar_guard"
            /\ arm' = arm
       ELSE /\ env' = env
            /\ pc' = "bar_x"
            /\ arm' = arm + 1
  /\ UNCHANGED <<foo, bar, idx, i, flag, out>>

\* match bar: test field y of the arm under test
BarFieldY ==
  /\ pc = "bar_y"
  /\ IF BarYPat(arm, bar.y)
       THEN /\ env' = env @@ BarYBind(arm, bar.y)
            /\ pc' = "bar_guard"
            /\ arm' = arm
       ELSE /\ env' = EmptyEnv
            /\ pc' = "bar_x"
            /\ arm' = arm + 1
  /\ UNCHANGED <<foo, bar, idx, i, flag, out>>

\* BarGuardStep selecting the arm whatever its guard says
BarGuardStepIgnoresGuard ==
  /\ pc = "bar_guard"
  /\ env' = env
  /\ pc' = "bar_body"
  /\ arm' = arm
  /\ UNCHANGED <<foo, bar, idx, i, flag, out>>

\* BarGuardStep keeping the bindings of the arm whose guard failed
BarGuardStepKeepsEnv ==
  /\ pc = "bar_guard"
  /\ IF BarGuard(arm, env)
       THEN /\ env' = env
            /\ pc' = "bar_body"
            /\ arm' = arm
       ELSE /\ env' = env
            /\ pc' = "bar_x"
            /\ arm' = arm + 1
  /\ UNCHANGED <<foo, bar, idx, i, flag, out>>

\* match bar: evaluate the guard of the arm whose pattern matched
BarGuardStep ==
  /\ pc = "bar_guard"
  /\ IF BarGuard(arm, env)
       THEN /\ env' = env
            /\ pc' = "bar_body"
            /\ arm' = arm
       ELSE /\ env' = EmptyEnv
            /\ pc' = "bar_x"
            /\ arm' = arm + 1
  /\ UNCHANGED <<foo, bar, idx, i, flag, out>>

\* match bar: run the body of the selected arm
BarBody ==
  /\ pc = "bar_body"
  /\ out' = Append(out, BarAction(arm, env))
  /\ pc' = "for_array"
  /\ UNCHANGED <<foo, bar, arm, env, idx, i, flag>>

\* for i in array.iter() { println!("{}", i); }
ForArray ==
  /\ pc = "for_array"
  /\ IF idx < Len(array)
       THEN /\ out' = Append(out, <<"elem", <<array[idx + 1]>>>>)
            /\ idx' = idx + 1
            /\ pc' = "for_array"
       ELSE /\ pc' = "for_range"
            /\ UNCHANGED <<idx, out>>
  /\ UNCHANGED <<foo, bar, arm, env, i, flag>>

\* ForRange with an inclusive upper end
ForRangeInclusive ==
  /\ pc = "for_range"
  /\ IF i <= RangeEnd
       THEN /\ out' = Append(out, <<"range", <<i>>>>)
            /\ i' = i + 1
            /\ pc' = "for_range"
       ELSE /\ out' = Append(out, <<"newline", <<>>>>)
            /\ pc' = "if"
            /\ i' = i
  /\ UNCHANGED <<foo, bar, arm, env, idx, flag>>

\* for i in 0..10 { print!("{} ", i); }  println!("");
ForRange ==
  /\ pc = "for_range"
  /\ IF i < RangeEnd
       THEN /\ out' = Append(out, <<"range", <<i>>>>)
            /\ i' = i + 1
            /\ pc' = "for_range"
       ELSE /\ out' = Append(out, <<"newline", <<>>>>)
            /\ pc' = "if"
            /\ i' = i
  /\ UNCHANGED <<foo, bar, arm, env, idx, flag>>

\* if 1 == 1 { println!("Maths is working!"); } else { println!("Oh no..."); }
IfStmt ==
  /\ pc = "if"
  /\ out' = Append(out, IF 1 = 1 THEN <<"maths", <<>>>> ELSE <<"oh_no", <<>>>>)
  /\ pc' = "while"
  /\ UNCHANGED <<foo, bar, arm, env, idx, i, flag>>

\* while flag { println!("Only one iteration"); flag = !flag; }
WhileStep ==
  /\ pc = "while"
  /\ IF flag
       THEN /\ out' = Append(out, <<"once", <<>>>>)
            /\ flag' = ~flag
            /\ pc' = "while"
       ELSE /\ pc' = "loop"
            /\ UNCHANGED <<flag, out>>
  /\ UNCHANGED <<foo, bar, arm, env, idx, i>>

\* loop { println!("Hello!"); break; }
LoopStep ==
  /\ pc = "loop"
  /\ out' = Append(out, <<"hello", <<>>>>)
  /\ pc' = "memory"
  /\ UNCHANGED <<foo, bar, arm, env, idx, i, flag>>

\* section 5 of main: straight-line code, prints 5, 4, 4 and 6; main ends
MemorySection ==
  /\ pc = "memory"
  /\ LET mine == 5
         var  == 4
         var2 == 4 + 2
     IN  out' = out \o << <<"mine", <<mine>>>>, <<"var", <<var>>>>,
                          <<"ref_var", <<var>>>>, <<"ref_var2", <<var2>>>> >>
  /\ pc' = "done"
  /\ UNCHANGED <<foo, bar, arm, env, idx, i, flag>>

Next ==
  \/ FooTry
  \/ FooBody
  \/ BarFieldX
  \/ BarFieldY
  \/ BarGuardStep
  \/ BarBody
  \/ ForArray
  \/ ForRange
  \/ IfStmt
  \/ WhileStep
  \/ LoopStep
  \/ MemorySection

Spec == Init /\ [][Next]_vars

\* main is one thread that runs to its end: every enabled step is taken
LiveSpec == Spec /\ WF_vars(Next)

TypeOK ==
  /\ foo \in OptionalI32
  /\ bar \in FooBar
  /\ arm \in 0 .. NumBarArms
  /\ idx \in 0 .. Len(array)
  /\ i \in RangeStart .. RangeEnd
  /\ flag \in BOOLEAN
\* ------------------------------------------------ vocabulary of the properties
\* arm k of `match bar` matches v structurally
BarArmMatches(k, v) == BarXPat(k, v.x) /\ BarYPat(k, v.y)

\* the bindings of arm k of `match bar` on a value it matches
BarArmEnv(k, v) == BarXBind(k, v.x) @@ BarYBind(k, v.y)

\* arm k of `match bar` matches v and its guard holds on its own bindings
BarArmQualifies(k, v) == BarArmMatches(k, v) /\ BarGuard(k, BarArmEnv(k, v))

\* the arm bodies a run has executed so far, per match
FooTokens == {"i32", "nothing"}

BarTokens == {"zero", "same", "different", "second_nothing"}

Printed(kinds) == SelectSeq(out, LAMBDA t : t[1] \in kinds)

Args(kinds) == [j \in 1 .. Len(Printed(kinds)) |-> Printed(kinds)[j][2][1]]

FooMatching == pc = "foo_match"

BarMatching == pc \in {"bar_x", "bar_y", "bar_guard"}

AfterFoo == pc \notin {"foo_match", "foo_body"}

AfterBar == AfterFoo /\ ~BarMatching /\ pc # "bar_body"

\* C1: first match wins. When a `match` of the program selects arm i, arm i
\* matches the scrutinee and its guard holds on arm i's bindings, and no
\* earlier arm both matches and passes its guard; FooBar {0, AnI32(0)}
\* satisfies arms 0, 1 and 2 and selects arm 0.
C1_FirstMatchWins ==
  /\ pc = "bar_body" =>
       /\ BarArmQualifies(arm, bar)
       /\ \A k \in 0 .. arm - 1 : ~BarArmQualifies(k, bar)
  /\ pc = "foo_body" =>
       /\ FooPat(arm, foo)
       /\ \A k \in 0 .. arm - 1 : ~FooPat(k, foo)
  /\ (pc = "bar_body" /\ bar = [x |-> 0, y |-> AnI32(0)]) =>
       /\ arm = 0
       /\ \A k \in 0 .. 2 : BarArmQualifies(k, bar)

C1_Witness ==
  /\ pc = "bar_body"
  /\ bar = [x |-> 0, y |-> AnI32(0)]
  /\ arm = 0
  /\ BarArmQualifies(1, bar)
  /\ BarArmQualifies(2, bar)

\* C2: exactly one action per input value. Neither `match` of the program
\* ever runs past its last arm (no NoMatch), and once a `match` is over
\* exactly one of its arm bodies has run.
C2_ExactlyOneAction ==
  /\ FooMatching => arm < NumFooArms
  /\ BarMatching => arm < NumBarArms
  /\ Len(Printed(FooTokens)) = (IF AfterFoo THEN 1 ELSE 0)
  /\ Len(Printed(BarTokens)) = (IF AfterBar THEN 1 ELSE 0)

C2_Witness ==
  /\ pc = "done"
  /\ Len(Printed(FooTokens)) = 1
  /\ Len(Printed(BarTokens)) = 1
  /\ bar.y = Nothing

\* C3: guard fall-through and guard isolation. An arm whose guard is false
\* is passed over and the next arm starts from the empty environment; a
\* guard sees exactly the bindings of its own arm. FooBar {a, AnI32(b)}
\* with a # b selects arm 2 with bindings {n: a, m: b}; with a = b, not
\* both zero, it selects arm 1.
C3_GuardFallThrough ==
  /\ pc = "bar_x" => env = EmptyEnv
  /\ pc = "bar_guard" => env = BarArmEnv(arm, bar)
  /\ (pc = "bar_body" /\ bar.y.tag = "AnI32" /\ bar.x # bar.y.val) =>
       /\ arm = 2
       /\ env = [n |-> bar.x, m |-> bar.y.val]
  /\ (pc = "bar_body" /\ bar.y.tag = "AnI32" /\ bar.x = bar.y.val
        /\ ~(bar.x = 0 /\ bar.y.val = 0)) =>
       arm = 1

C3_Witness ==
  /\ pc = "bar_body"
  /\ arm = 2
  /\ bar = [x |-> 15, y |-> AnI32(32)]
  /\ env = [n |-> 15, m |-> 32]

\* C4: no partial bindings on failure. An arm that is rejected, by a
\* sub-pattern (after earlier fields bound names) or by its guard,
\* contributes no bindings: the environment of the selected arm is exactly
\* the bindings of that arm's own pattern.
C4_NoPartialBindings ==
  /\ pc = "bar_body" => env = BarArmEnv(arm, bar)
  /\ pc = "foo_body" => env = FooBind(arm, foo)
  /\ (pc = "bar_body" /\ arm = 3) => env = EmptyEnv
  /\ (pc = "bar_body" /\ arm = 0) => env = EmptyEnv
  /\ (pc = "bar_x" /\ arm > 0) => env = EmptyEnv

\* arm 3 is selected with no bindings although arms 1 and 2 bound n before
\* their field y failed
C4_Witness ==
  /\ pc = "bar_body"
  /\ arm = 3
  /\ bar.y = Nothing
  /\ env = EmptyEnv
  /\ BarXBind(1, bar.x) # EmptyEnv

\* C5: variant matching. In `match foo`, AnI32(k) selects arm 0 with
\* bindings {n: k} and Nothing selects arm 1 with no bindings; a pattern
\* without payload never matches a variant with one, and vice versa.
C5_VariantMatching ==
  /\ (pc = "foo_body" /\ foo.tag = "AnI32") =>
       arm = 0 /\ env = [n |-> foo.val]
  /\ (pc = "foo_body" /\ foo.tag = "Nothing") =>
       arm = 1 /\ env = EmptyEnv
  /\ (pc \in {"bar_guard", "bar_body"} /\ arm = 3) => bar.y = Nothing
  /\ (pc \in {"bar_guard", "bar_body"} /\ arm < 3) => bar.y.tag = "AnI32"
  /\ AfterFoo =>
       Printed(FooTokens) =
         << IF foo = Nothing THEN <<"nothing", <<>>>>
                             ELSE <<"i32", <<foo.val>>>> >>

C5_Witness ==
  /\ pc = "foo_body"
  /\ foo = Nothing
  /\ arm = 1
  /\ env = EmptyEnv

\* C10: every loop of main terminates and main reaches its end: the while
\* body runs exactly once, the loop body exactly once, the range loop
\* visits 0, 1, ..., 9 in order and the array loop visits 1, 2, 3 in order.
LoopsRan ==
  /\ Len(Printed({"once"})) = 1
  /\ Len(Printed({"hello"})) = 1
  /\ Args({"range"}) = [j \in 1 .. 10 |-> j - 1]
  /\ Args({"elem"}) = <<1, 2, 3>>

C10_LoopsTerminate == <>(pc = "done" /\ LoopsRan)

C10_Witness == pc = "done" /\ LoopsRan /\ ~flag /\ i = 10 /\ idx = 3
====
